---- MODULE Spec2Model ----
(***************************************************************************)
(* Model of src/app.py: environmental_factor and simulate_population, the  *)
(* day-stepping S / I1 / I2 / D engine of the Blattella germanica -        *)
(* indoxacarb population model.                                            *)
(*                                                                         *)
(* Numbers.  The engine computes in numpy float64.  A float is modelled    *)
(* as a record [m, e] standing for m * 2^e, with a significand of          *)
(* MantissaBits bits (IEEE-754 binary arithmetic with a shorter            *)
(* significand and an unbounded exponent): every arithmetic operation is   *)
(* the exact mathematical result rounded to the nearest representable      *)
(* value, ties to even.  Additions therefore round, as they do in float64. *)
(***************************************************************************)
EXTENDS Integers, Sequences, FiniteSets, TLC

(***************************************************************************)
(* RefDays is the default horizon of the interface (the reference          *)
(* scenario), MaxDays the longest run explored, MantissaBits the width of  *)
(* the significand of the modelled floats (53 in float64).                 *)
(***************************************************************************)
RefDays == 60
MaxDays == 75

MantissaBits == 12

(***************************************************************************)
(* Floating-point arithmetic                                               *)
(***************************************************************************)
RECURSIVE Pow2(_)
Pow2(n) == IF n <= 0 THEN 1 ELSE 2 * Pow2(n - 1)

RECURSIVE BitLen(_)
BitLen(n) == IF n <= 0 THEN 0 ELSE 1 + BitLen(n \div 2)

Abs(x) == IF x < 0 THEN -x ELSE x

Zero == [m |-> 0, e |-> 0]

\* Nearest float to n * 2^e for an integer n >= 0; sticky says that the
\* exact value lies strictly between n * 2^e and (n + 1) * 2^e.
RoundMag(n, e, sticky) ==
    IF n = 0 THEN Zero
    ELSE LET b == BitLen(n) IN
         IF b <= MantissaBits
         THEN [m |-> n * Pow2(MantissaBits - b), e |-> e - (MantissaBits - b)]
         ELSE LET k    == b - MantissaBits
                  q    == n \div Pow2(k)
                  r    == n % Pow2(k)
                  half == Pow2(k - 1)
                  up   == (r > half) \/ (r = half /\ (sticky \/ q % 2 = 1))
                  q2   == IF up THEN q + 1 ELSE q
              IN IF q2 = Pow2(MantissaBits)
                 THEN [m |-> Pow2(MantissaBits - 1), e |-> e + k + 1]
                 ELSE [m |-> q2, e |-> e + k]

Neg(a) == [m |-> -a.m, e |-> a.e]

Fl(n, e) == IF n < 0 THEN Neg(RoundMag(-n, e, FALSE)) ELSE RoundMag(n, e, FALSE)

FromInt(n) == Fl(n, 0)

One == FromInt(1)

\* a + b, correctly rounded
Add(a, b) ==
    IF a.m = 0 THEN b
    ELSE IF b.m = 0 THEN a
    ELSE LET hi  == IF a.e >= b.e THEN a ELSE b
             lo  == IF a.e >= b.e THEN b ELSE a
             dlt == hi.e - lo.e
         IN IF dlt > MantissaBits + 1 THEN hi
            ELSE Fl(hi.m * Pow2(dlt) + lo.m, lo.e)

Sub(a, b) == Add(a, Neg(b))

\* a * b, correctly rounded
Mul(a, b) == Fl(a.m * b.m, a.e + b.e)

Lt(a, b) == Sub(a, b).m < 0

Leq(a, b) == Sub(a, b).m <= 0

RECURSIVE ScaleFor(_, _, _)
ScaleFor(mag, den, k) ==
    IF mag * Pow2(k) >= den * Pow2(MantissaBits + 1) THEN k
    ELSE ScaleFor(mag, den, k + 1)

\* a * num / den for integers num >= 0, den > 0, correctly rounded
MulRat(a, num, den) ==
    IF a.m = 0 \/ num = 0 THEN Zero
    ELSE LET mag == Abs(a.m) * num
             k   == ScaleFor(mag, den, 0)
             n   == mag * Pow2(k)
             res == RoundMag(n \div den, a.e - k, n % den # 0)
         IN IF a.m < 0 THEN Neg(res) ELSE res

\* the float nearest to the decimal literal num / den
Lit(num, den) == MulRat(One, num, den)

RECURSIVE SqrtSearch(_, _, _)
SqrtSearch(n, lo, hi) ==
    IF lo >= hi THEN lo
    ELSE LET mid == (lo + hi + 1) \div 2
         IN IF mid * mid <= n THEN SqrtSearch(n, mid, hi)
            ELSE SqrtSearch(n, lo, mid - 1)

Isqrt(n) == SqrtSearch(n, 0, 46340)

\* a ** 0.75 for a >= 0, as sqrt(a * sqrt(a)), within one unit in the last
\* place of the exact power
Pow075(a) ==
    IF a.m <= 0 THEN Zero
    ELSE LET r  == a.e % 4
             mm == a.m * Pow2(r)
             ee == a.e - r
             s1 == Isqrt(mm * 65536)
             t  == mm * s1
             s2 == Isqrt(t)
         IN RoundMag(s2, (3 * (ee \div 4)) - 4,
                     (s1 * s1 # mm * 65536) \/ (s2 * s2 # t))

\* Python max(0, x) stored into a float array
Max0(x) == IF x.m > 0 THEN x ELSE Zero

\* Python min(x, y): y when y < x, else x
PyMin(x, y) == IF Lt(y, x) THEN y ELSE x

(***************************************************************************)
(* Inputs of a run: simulate_population(days, initial_pop, temp, humidity, *)
(* reinfestation_rate).  reinfestation_rate is held in thousandths (the    *)
(* slider runs over 0.000 .. 0.010); temperatures and humidities below     *)
(* the slider ranges are included because the function accepts them.       *)
(***************************************************************************)
DaysSet == {-1, 0, 1, 3, RefDays, MaxDays}
PopSet  == {0, 1, 500}
TempSet == {5, 30, 35}
HumSet  == {20, 30, 70, 90}
RateSet == {0, 2, 10}

\* the ranges the sliders of the interface declare for temp and humidity
TempDomain == 15..40
HumDomain  == 30..90

(***************************************************************************)
(* environmental_factor                                                    *)
(***************************************************************************)
temp_factorRaw(t) == Sub(One, MulRat(FromInt(Abs(t - 30)), 1, 20))

temp_factor(t) == Max0(Sub(One, MulRat(FromInt(Abs(t - 30)), 1, 20)))

hum_factor(h) == Max0(Sub(One, MulRat(FromInt(Abs(h - 70)), 1, 40)))

environmental_factor(t, h) == Mul(temp_factor(t), hum_factor(h))

(***************************************************************************)
(* simulate_population: biological parameters                              *)
(***************************************************************************)
birth_rate        == Lit(4, 100)
natural_mortality == Lit(1, 100)
exposure_rate     == Lit(5, 100)
stop_feed_delay   == 2
lethal_delay      == 4
risk_level        == 25

VARIABLES pc, days, initial_pop, temp, humidity, reinfestation_rate,
          env, d, S, I1, I2, D, intox_history, N_active,
          new_intox, to_I2, toxic_deaths, raw_S, raw_I1, raw_I2, reads

params == <<days, initial_pop, temp, humidity, reinfestation_rate>>
series == <<S, I1, I2, D, intox_history>>
locals == <<new_intox, to_I2, toxic_deaths, raw_S, raw_I1, raw_I2, reads>>
vars   == <<pc, params, env, d, series, N_active, locals>>

Empty == [i \in {} |-> Zero]

\* np.zeros(n)
zeros(n) == [i \in 0..(n - 1) |-> Zero]

Init ==
    /\ pc = "call"
    /\ days \in DaysSet
    /\ initial_pop \in PopSet
    /\ temp \in TempSet
    /\ humidity \in HumSet
    /\ reinfestation_rate \in RateSet
    /\ env = Zero
    /\ d = 0
    /\ S = Empty /\ I1 = Empty /\ I2 = Empty /\ D = Empty
    /\ intox_history = Empty
    /\ N_active = Empty
    /\ new_intox = Zero /\ to_I2 = Zero /\ toxic_deaths = Zero
    /\ raw_S = Zero /\ raw_I1 = Zero /\ raw_I2 = Zero
    /\ reads = {}

\* lines 52-61 with days >= 1: the factor, the arrays, S[0] = initial_pop
Setup ==
    /\ pc = "call"
    /\ days >= 1
    /\ env' = environmental_factor(temp, humidity)
    /\ S' = [zeros(days) EXCEPT ![0] = FromInt(initial_pop)]
    /\ I1' = zeros(days)
    /\ I2' = zeros(days)
    /\ D' = zeros(days)
    /\ intox_history' = zeros(days)
    /\ d' = 1
    /\ pc' = "loop"
    /\ UNCHANGED <<params, N_active, locals>>

\* lines 55-60 with days <= 0: np.zeros(days) raises ValueError for a
\* negative length, and S[0] = initial_pop raises IndexError on an empty array
SetupRaises ==
    /\ pc = "call"
    /\ days <= 0
    /\ pc' = "raised"
    /\ UNCHANGED <<params, env, d, series, N_active, locals>>

DelayedReadOff(hist, day, delay) ==
    IF day >= delay
    THEN [val |-> hist[(day - delay - 1) % days], idx |-> {day - delay - 1}]
    ELSE [val |-> Zero, idx |-> {}]

\* intox_history[day - delay] if day >= delay else 0, with the index read;
\* a negative index would count from the end of the array, as in Python
DelayedRead(hist, day, delay) ==
    IF day >= delay
    THEN [val |-> hist[(day - delay) % days], idx |-> {day - delay}]
    ELSE [val |-> Zero, idx |-> {}]

ImmigrationConst(prev) ==
    IF Lt(prev, FromInt(risk_level))
    THEN Lit(reinfestation_rate, 1000)
    ELSE Zero

\* lines 81-84
Immigration(prev) ==
    IF Lt(prev, FromInt(risk_level))
    THEN Mul(Lit(reinfestation_rate, 1000), prev)
    ELSE Zero

\* line 66-67
Uptake(prev) == PyMin(Mul(exposure_rate, Pow075(prev)), prev)

BirthsNoEnv(prev) == Mul(prev, birth_rate)

\* line 71
Births(prev) == Mul(Mul(prev, birth_rate), env)

\* line 74
NaturalDeaths(prev) == Mul(prev, natural_mortality)

\* line 87, before the clamp
NextS(prev, births, intox, deaths, immigration) ==
    Add(Sub(Sub(Add(prev, births), intox), deaths), immigration)

\* line 88, before the clamp
NextI1(prev, intox, late) == Sub(Add(prev, intox), late)

NextI2NoDrain(prev, late, dead) == Add(prev, late)

\* line 89, before the clamp
NextI2(prev, late, dead) == Sub(Add(prev, late), dead)

NextDDaily(prev, dead) == dead

\* line 90
NextD(prev, dead) == Add(prev, dead)

ClampOff(x) == x

\* the clamp of lines 87-89
Clamp(x) == Max0(x)

LoopDoneEarly(day, n) == day >= n - 1

\* "for d in range(1, days)" is exhausted
LoopDone(day, n) == day >= n

\* one iteration of "for d in range(1, days)", lines 63-90
DayStep ==
    /\ pc = "loop"
    /\ ~LoopDone(d, days)
    /\ LET prev  == S[d - 1]
           intox == Uptake(prev)
           hist  == [intox_history EXCEPT ![d] = intox]
           late  == DelayedRead(hist, d, stop_feed_delay)
           dead  == DelayedRead(hist, d, lethal_delay)
           rS    == NextS(prev, Births(prev), intox, NaturalDeaths(prev),
                          Immigration(prev))
           r1    == NextI1(I1[d - 1], intox, late.val)
           r2    == NextI2(I2[d - 1], late.val, dead.val)
       IN /\ intox_history' = hist
          /\ new_intox' = intox
          /\ to_I2' = late.val
          /\ toxic_deaths' = dead.val
          /\ reads' = late.idx \cup dead.idx
          /\ raw_S' = rS
          /\ raw_I1' = r1
          /\ raw_I2' = r2
          /\ S' = [S EXCEPT ![d] = Clamp(rS)]
          /\ I1' = [I1 EXCEPT ![d] = Clamp(r1)]
          /\ I2' = [I2 EXCEPT ![d] = Clamp(r2)]
          /\ D' = [D EXCEPT ![d] = NextD(D[d - 1], dead.val)]
    /\ d' = d + 1
    /\ UNCHANGED <<pc, params, env, N_active>>

\* lines 92-94: N_active = S + I1, return
Return ==
    /\ pc = "loop"
    /\ LoopDone(d, days)
    /\ N_active' = [i \in 0..(days - 1) |-> Add(S[i], I1[i])]
    /\ pc' = "done"
    /\ UNCHANGED <<params, env, d, series, locals>>

Next == Setup \/ SetupRaises \/ DayStep \/ Return

Spec == Init /\ [][Next]_vars

(***************************************************************************)
(* environmental_factor on its own, over a grid of temperatures and        *)
(* humidities                                                              *)
(***************************************************************************)
EnvTemps == -10..70
EnvHums  == 0..130

InitEnv ==
    /\ pc = "call"
    /\ days = 1
    /\ initial_pop = 0
    /\ temp \in EnvTemps
    /\ humidity \in EnvHums
    /\ reinfestation_rate = 0
    /\ env = Zero
    /\ d = 0
    /\ S = Empty /\ I1 = Empty /\ I2 = Empty /\ D = Empty
    /\ intox_history = Empty
    /\ N_active = Empty
    /\ new_intox = Zero /\ to_I2 = Zero /\ toxic_deaths = Zero
    /\ raw_S = Zero /\ raw_I1 = Zero /\ raw_I2 = Zero
    /\ reads = {}

EnvCall ==
    /\ pc = "call"
    /\ env' = environmental_factor(temp, humidity)
    /\ pc' = "env"
    /\ UNCHANGED <<params, d, series, N_active, locals>>

NextEnv == EnvCall

SpecEnv == InitEnv /\ [][NextEnv]_vars

(***************************************************************************)
(* Properties                                                              *)
(***************************************************************************)
Running == pc \in {"loop", "done"}

\* the last day the loop has computed
last == d - 1

AbsF(x) == IF x.m < 0 THEN Neg(x) ELSE x

Live(i) == Add(Add(S[i], I1[i]), I2[i])

Active(i) == Add(S[i], I1[i])

RECURSIVE SumUptake(_)
SumUptake(i) == IF i <= 0 THEN Zero ELSE Add(SumUptake(i - 1), intox_history[i])

\* i units of roundoff of x, times 8
Tolerance(x, i) == MulRat(x, 8 * i, Pow2(MantissaBits))

\* C1: for valid parameters (days >= 1, initial_pop >= 0,
\* reinfestation_rate >= 0) every computed value of S, I1, I2 and D is >= 0.
NonNegative ==
    (Running /\ days >= 1 /\ initial_pop >= 0 /\ reinfestation_rate >= 0)
        => \A i \in 0..last :
              S[i].m >= 0 /\ I1[i].m >= 0 /\ I2[i].m >= 0 /\ D[i].m >= 0

\* a day on which the unclamped S was negative and the clamp brought it to 0
NonNegativeWitness ==
    /\ pc = "loop" /\ last >= 1
    /\ initial_pop > 0
    /\ raw_S.m < 0
    /\ S[last] = Zero

\* C2: cumulative Dead never decreases from one day to the next.
DeadNonDecreasing ==
    Running => \A i \in 1..last : Leq(D[i - 1], D[i])

\* toxic deaths have been added to D on two successive days
DeadNonDecreasingWitness ==
    /\ pc = "loop" /\ last >= 6
    /\ Lt(D[last - 2], D[last - 1])
    /\ Lt(D[last - 1], D[last])

\* C3: on the day just computed, to_I2 is the uptake stored stop_feed_delay = 2
\* days earlier and toxic_deaths the uptake stored lethal_delay = 4 days
\* earlier, both 0 during the warm-up, and only indices in 0..d are read.
DelayedLookups ==
    (pc = "loop" /\ last >= 1)
        => /\ new_intox = intox_history[last]
           /\ to_I2 = (IF last >= 2 THEN intox_history[last - 2] ELSE Zero)
           /\ toxic_deaths = (IF last >= 4 THEN intox_history[last - 4] ELSE Zero)
           /\ reads \subseteq 0..last
           /\ reads = (IF last >= 2 THEN {last - 2} ELSE {})
                        \cup (IF last >= 4 THEN {last - 4} ELSE {})

\* past both warm-ups, with two different non-zero delayed flows
DelayedLookupsWitness ==
    /\ pc = "loop" /\ last >= 6
    /\ to_I2.m > 0 /\ toxic_deaths.m > 0
    /\ to_I2 # toxic_deaths
    /\ to_I2 # new_intox

\* the reference scenario: 60 days, 500 insects, 30 degrees, 70 % humidity,
\* the default reinfestation rate
RefScenario ==
    /\ days = RefDays /\ initial_pop = 500
    /\ temp = 30 /\ humidity = 70
    /\ reinfestation_rate = 2

\* C4: in the reference scenario the active population S + I1 is below 25
\* on some day of the returned series.
RefScenarioEliminated ==
    (pc = "done" /\ RefScenario)
        => \E i \in 0..(days - 1) : Lt(N_active[i], FromInt(risk_level))

\* C5: with no reinfestation and a zero birth term (environmental factor 0),
\* neither the live total S + I1 + I2 nor the active population S + I1
\* increases from one day to the next, whatever the toxicant uptake is.
PureDecay ==
    (Running /\ reinfestation_rate = 0 /\ env = Zero)
        => \A i \in 1..last :
              /\ Leq(Live(i), Live(i - 1))
              /\ Leq(Active(i), Active(i - 1))

\* a decaying colony: no births, no reinfestation, uptake on the last day
\* and both totals strictly smaller than the day before
PureDecayWitness ==
    /\ pc = "loop" /\ last >= 5
    /\ reinfestation_rate = 0 /\ env = Zero
    /\ new_intox.m > 0 /\ toxic_deaths.m > 0
    /\ Lt(Live(last), Live(last - 1))
    /\ Lt(Active(last), Active(last - 1))

\* the parameters section 7 of the specification calls invalid
InvalidParameter ==
    \/ days <= 0
    \/ initial_pop < 0
    \/ temp \notin TempDomain
    \/ humidity \notin HumDomain
    \/ lethal_delay <= stop_feed_delay

\* C6: a run with invalid parameters is rejected before any day is computed.
InvalidRejected ==
    InvalidParameter => pc \in {"call", "raised"}

\* C7: a run that returns has made exactly days - 1 steps, and S, I1, I2, D
\* and N_active have one entry per day 0..days-1, the day-0 entries being
\* the initial state; N_active is S + I1 on every day and D[i] is D[i-1]
\* plus the toxic deaths of day i.
RunShape ==
    /\ pc = "loop" => (d >= 1 /\ d <= days)
    /\ pc = "done" =>
          /\ d = days
          /\ DOMAIN S = 0..(days - 1) /\ DOMAIN I1 = 0..(days - 1)
          /\ DOMAIN I2 = 0..(days - 1) /\ DOMAIN D = 0..(days - 1)
          /\ DOMAIN N_active = 0..(days - 1)
          /\ S[0] = FromInt(initial_pop)
          /\ I1[0] = Zero /\ I2[0] = Zero /\ D[0] = Zero
          /\ \A i \in 0..(days - 1) : N_active[i] = Add(S[i], I1[i])
          /\ \A i \in 1..(days - 1) :
                D[i] = Add(D[i - 1],
                           IF i >= 4 THEN intox_history[i - 4] ELSE Zero)

\* a returned run during which the susceptible compartment reached 0
RunShapeWitness ==
    /\ pc = "done" /\ days = MaxDays
    /\ initial_pop > 0
    /\ S[days - 1] = Zero
    /\ D[days - 1].m > 0

\* the tent response in exact arithmetic, as a number of 800ths:
\* max(0, 20 - |T - 30|) * max(0, 40 - |H - 70|)
Tent800(t, h) ==
    (IF Abs(t - 30) >= 20 THEN 0 ELSE 20 - Abs(t - 30))
        * (IF Abs(h - 70) >= 40 THEN 0 ELSE 40 - Abs(h - 70))

\* C8: environmental_factor(T, H) is the tent response
\* max(0, 1 - |T-30|/20) * max(0, 1 - |H-70|/40) (to within 8 units of
\* roundoff of 1), lies in
\* [0, 1], is 0 whenever |T-30| >= 20 or |H-70| >= 40, and is 1 only at
\* T = 30, H = 70.
EnvFactorRange ==
    pc = "env" =>
        LET exact == MulRat(FromInt(Tent800(temp, humidity)), 1, 800) IN
        /\ Leq(Zero, env) /\ Leq(env, One)
        /\ (Abs(temp - 30) >= 20 \/ Abs(humidity - 70) >= 40) => env = Zero
        /\ (Abs(temp - 30) < 20 /\ Abs(humidity - 70) < 40) => env.m > 0
        /\ env = One <=> (temp = 30 /\ humidity = 70)
        /\ Leq(AbsF(Sub(env, exact)), Tolerance(One, 1))

\* the factor computed where both tents are cut off at 0
EnvFactorRangeWitness ==
    /\ pc = "env"
    /\ Abs(temp - 30) > 20 /\ Abs(humidity - 70) > 40
    /\ env = Zero

\* C9 as stated: the unclamped I1 and I2 are never negative, I1 is exactly
\* the sum of the last two uptakes and I1 + I2 + D exactly the cumulative
\* uptake.
MassConservedExactly ==
    (pc = "loop" /\ last >= 1)
        => /\ raw_I1.m >= 0
           /\ raw_I2.m >= 0
           /\ I1[last] = Add(intox_history[last], intox_history[last - 1])
           /\ Add(Add(I1[last], I2[last]), D[last]) = SumUptake(last)

\* C9 as amended: I1 + I2 + D equals the cumulative uptake up to rounding
\* (a relative error of at most 8 d units of roundoff on day d), and the
\* unclamped I1 and I2 are never below minus that rounding residue.
MassConservedApprox ==
    (pc = "loop" /\ last >= 1)
        => LET total == SumUptake(last)
               tol   == Tolerance(total, last)
           IN /\ Leq(AbsF(Sub(Add(Add(I1[last], I2[last]), D[last]), total)),
                     tol)
              /\ Leq(Neg(tol), raw_I1)
              /\ Leq(Neg(tol), raw_I2)

\* the clamp fires on I1: its unclamped value is a negative rounding residue
MassConservedApproxWitness ==
    /\ pc = "loop" /\ last >= 6
    /\ raw_I1.m < 0
    /\ I1[last] = Zero
    /\ D[last].m > 0

\* C10: once S is 0 it stays 0 and the uptake stays 0 on every later day,
\* for any reinfestation_rate.
ExtinctionAbsorbing ==
    Running => \A i \in 1..last :
                  S[i - 1] = Zero => (S[i] = Zero /\ intox_history[i] = Zero)

\* a colony that started positive, died out under a positive
\* reinfestation_rate, and has had a further day computed
ExtinctionAbsorbingWitness ==
    /\ pc = "loop" /\ last >= 2
    /\ initial_pop > 0 /\ reinfestation_rate > 0
    /\ S[last - 2].m > 0
    /\ S[last - 1] = Zero
    /\ S[last] = Zero

====
